---- MODULE Spec2Model ----
(***************************************************************************)
(* Model of modules/lightweight_extractor.py: the caption heuristic        *)
(* (LightweightExtractor._extract_image_caption) and the extraction        *)
(* session (LightweightExtractor.__init__, extract_content, save_content,  *)
(* cleanup_temp_files and the function extract_lightweight_content).       *)
(*                                                                         *)
(* Markdown text is a sequence of symbols.  A symbol is a chunk of         *)
(* characters that the regular expressions of the code treat as a unit:    *)
(* the single characters "!", "[", "]", "(", ")", ":", " ", "\n", "#",     *)
(* a digit, a figure-label word ("Figure", "Fig."), an image file name, or *)
(* a word group that contains none of these.  The text the code sees is    *)
(* the concatenation of the symbols.                                       *)
(***************************************************************************)
EXTENDS Integers, Sequences, FiniteSets, TLC

NL == "\n"
SP == " "

\* characters matched by \s and removed by str.strip()
Whitespace == {SP, NL}
\* symbols matched by \d
DigitSyms == {"2", "3", "4"}
\* symbols matched in full by (?:Figure?|Fig\.?) under re.IGNORECASE
LabelSyms == {"Figure", "Fig."}
\* symbols matched by [#*-]
PunctSyms == {"#", "*", "-"}
\* symbols matched by [:\.] (no symbol of the alphabet is a lone ".")
SepSyms == {":"}

\* the policy thresholds of the heuristic
DownWindow == 5
UpWindow == 3
ProseWindow == 3
MinProseLen == 10

MinOf(S) == CHOOSE x \in S : \A y \in S : x <= y
Smaller(a, b) == IF a <= b THEN a ELSE b
Larger(a, b) == IF a >= b THEN a ELSE b

\* "".join(syms): the characters a symbol sequence stands for
RECURSIVE Join(_)
Join(syms) == IF syms = <<>> THEN "" ELSE Head(syms) \o Join(Tail(syms))

\* str.strip(): leading and trailing whitespace removed
Strip(syms) ==
    LET keep == {k \in 1..Len(syms) : syms[k] \notin Whitespace}
    IN  IF keep = {} THEN <<>>
        ELSE SubSeq(syms, MinOf(keep), CHOOSE x \in keep : \A y \in keep : y <= x)

\* `image_filename in s` for one symbol: by the choice of the alphabet a file
\* name occurs in the text only as the symbol that is the file name
HasFilename(sym, f) == sym = f

\* `image_filename in line`
LineHas(line, f) == \E k \in 1..Len(line) : HasFilename(line[k], f)

(***************************************************************************)
(* Rule 1: re.findall(r'!\[(.*?)\]\([^)]*<filename>[^)]*\)', text)[0].     *)
(***************************************************************************)
\* \([^)]*<filename>[^)]*\) matches right after the "]" at position e
PathMatches(text, e, f) ==
    /\ e + 1 <= Len(text)
    /\ text[e + 1] = "("
    /\ \E q \in (e + 2)..Len(text) :
          /\ text[q] = ")"
          /\ \A r \in (e + 2)..(q - 1) : text[r] # ")"
          /\ \E p \in (e + 2)..(q - 1) : HasFilename(text[p], f)

\* the positions of a "]" that can close group 1 of a match starting at s:
\* (.*?) matches no newline
RefEnds(text, s, f) ==
    {e \in (s + 2)..Len(text) :
        /\ text[e] = "]"
        /\ \A r \in (s + 2)..(e - 1) : text[r] # NL
        /\ PathMatches(text, e, f)}

\* the positions at which the pattern matches
RefStarts(text, f) ==
    {s \in 1..(Len(text) - 1) :
        /\ text[s] = "!"
        /\ text[s + 1] = "["
        /\ RefEnds(text, s, f) # {}}

\* matches[0].strip() of the leftmost match, group 1 taken lazily; "" when
\* there is no match
DirectReference(text, f) ==
    IF RefStarts(text, f) = {} THEN ""
    ELSE LET s == MinOf(RefStarts(text, f))
             e == MinOf(RefEnds(text, s, f))
         IN  Join(Strip(SubSeq(text, s + 2, e - 1)))

(***************************************************************************)
(* Rules 2 and 3: text.split('\n') and the scans around a mention.         *)
(***************************************************************************)
RECURSIVE Split(_)
Split(text) ==
    LET nls == {k \in 1..Len(text) : text[k] = NL}
    IN  IF nls = {} THEN <<text>>
        ELSE <<SubSeq(text, 1, MinOf(nls) - 1)>>
               \o Split(SubSeq(text, MinOf(nls) + 1, Len(text)))

\* the first position >= p whose symbol is not in S (Len(line)+1 if none)
SkipWhile(line, p, S) ==
    MinOf({q \in p..(Len(line) + 1) : q > Len(line) \/ line[q] \notin S})

\* (?:Figure?|Fig\.?)\s*(\d+) matches at position p
LabelAt(line, p) ==
    /\ line[p] \in LabelSyms
    /\ LET d == SkipWhile(line, p + 1, {SP})
       IN  d <= Len(line) /\ line[d] \in DigitSyms

\* group(2).strip() of re.search(figure pattern, line); "" when the line
\* does not match (the code treats both alike)
FigureCaption(line) ==
    LET ps == {p \in 1..Len(line) : LabelAt(line, p)}
    IN  IF ps = {} THEN ""
        ELSE LET d == SkipWhile(line, MinOf(ps) + 1, {SP})
                 c == SkipWhile(line, d, DigitSyms)
                 t == IF c <= Len(line) /\ line[c] \in SepSyms THEN c + 1 ELSE c
             IN  Join(Strip(SubSeq(line, t, Len(line))))

\* the condition of rule 3 on lines[j].strip()
ProseOk(line) ==
    LET t == Strip(line)
    IN  /\ t # <<>>
        /\ t[1] # "!"
        /\ ~ (\A k \in 1..Len(t) : t[k] \in DigitSyms)
        /\ ~ (\A k \in 1..Len(t) : t[k] \in PunctSyms)
        /\ Len(Join(t)) > MinProseLen

\* a downward scan that stops where the prose scan stops
DownLabelsNarrow(lines, i) ==
    {j \in (i + 1)..Smaller(Len(lines), i + ProseWindow) : FigureCaption(lines[j]) # ""}

\* the three scans of the loop body for the mention at line i (1-based)
DownLabels(lines, i) ==
    {j \in (i + 1)..Smaller(Len(lines), i + DownWindow) : FigureCaption(lines[j]) # ""}
UpLabels(lines, i) ==
    {j \in Larger(1, i - UpWindow)..(i - 1) : FigureCaption(lines[j]) # ""}
ProseLines(lines, i) ==
    {j \in (i + 1)..Smaller(Len(lines), i + ProseWindow) : ProseOk(lines[j])}

\* a loop body that scans upward before it scans downward
AnchorCaptionUpFirst(lines, i) ==
    IF UpLabels(lines, i) # {} THEN FigureCaption(lines[MinOf(UpLabels(lines, i))])
    ELSE IF DownLabels(lines, i) # {} THEN FigureCaption(lines[MinOf(DownLabels(lines, i))])
    ELSE IF ProseLines(lines, i) # {} THEN Join(Strip(lines[MinOf(ProseLines(lines, i))]))
    ELSE ""

\* what the loop body returns for the mention at line i; "" when it falls
\* through to the next iteration
AnchorCaption(lines, i) ==
    IF DownLabels(lines, i) # {} THEN FigureCaption(lines[MinOf(DownLabels(lines, i))])
    ELSE IF UpLabels(lines, i) # {} THEN FigureCaption(lines[MinOf(UpLabels(lines, i))])
    ELSE IF ProseLines(lines, i) # {} THEN Join(Strip(lines[MinOf(ProseLines(lines, i))]))
    ELSE ""

\* for i, line in enumerate(lines): if image_filename in line: ...
RECURSIVE ScanMentions(_, _, _)
ScanMentions(lines, f, i) ==
    IF i > Len(lines) THEN ""
    ELSE IF LineHas(lines[i], f) /\ AnchorCaption(lines, i) # ""
         THEN AnchorCaption(lines, i)
         ELSE ScanMentions(lines, f, i + 1)

\* the try block of _extract_image_caption: the three rules
CaptionRules(text, f) ==
    IF DirectReference(text, f) # "" THEN DirectReference(text, f)
    ELSE ScanMentions(Split(text), f, 1)

\* _extract_image_caption without its except branch: the exception leaves
\* the call
extract_image_caption_noexcept(text, f, raised) ==
    [raised |-> raised, value |-> IF raised THEN "" ELSE CaptionRules(text, f)]

\* LightweightExtractor._extract_image_caption.  raised: an exception was
\* raised inside the try block; the except branch logs it and returns "".
\* The result tells the caller whether the call raised, and what it returned
extract_image_caption(text, f, raised) ==
    [raised |-> FALSE, value |-> IF raised THEN "" ELSE CaptionRules(text, f)]

(***************************************************************************)
(* The inputs of the caption heuristic: markdown lines, and the texts      *)
(* built from them.                                                        *)
(***************************************************************************)
MaxShort == 3
MaxLong == 7

Ref(cap, path) == <<"!", "[">> \o cap \o <<"]", "(">> \o path \o <<")">>

LBlank == <<>>
LRefX == Ref(<<"Caption X">>, <<"d/", "img1.png">>)
LRefFirst == Ref(<<"First">>, <<"img1.png">>)
LRefOther == Ref(<<"Other">>, <<"a.png">>)
LRefBoth == LRefOther \o <<SP>> \o LRefX
LRefEmpty == Ref(<<SP>>, <<"img1.png">>)
LMention == <<"see", SP, "img2.png">>
LFig3 == <<"Figure", SP, "3", ":", SP, "Result overview">>
LFig2 == <<"Fig.", SP, "2", SP, "Other">>
LFig4 == <<"Figure", SP, "4", ":">>
LProse == <<"A plain descriptive line">>
LShort == <<"short">>
LDigits == <<"4", "2">>
LPunct == <<"#", "#">>

LineBank ==
    {LBlank, LRefX, LRefFirst, LRefOther, LRefBoth, LRefEmpty, LMention,
     LFig3, LFig2, LFig4, LProse, LShort, LDigits, LPunct}
LongBank == {LBlank, LMention, LFig3, LProse}

Filenames == {"img1.png", "img2.png"}

\* "\n".join(lines)
RECURSIVE JoinLines(_)
JoinLines(ls) ==
    IF Len(ls) = 0 THEN <<>>
    ELSE IF Len(ls) = 1 THEN ls[1]
    ELSE ls[1] \o <<NL>> \o JoinLines(Tail(ls))

ShortTexts == UNION {[1..n -> LineBank] : n \in 0..MaxShort}
LongTexts == UNION {[1..n -> LongBank] : n \in (MaxShort + 1)..MaxLong}

(***************************************************************************)
(* The extraction session.  A path is the sequence of its components.      *)
(***************************************************************************)
Sessions == {"s1", "s2"}
\* Python's None as a return value, and the value of a variable not yet
\* assigned; a path not yet assigned (or None) is the empty path
None == [kind |-> "None"]
Unset == "unset"
NotYet == [kind |-> "unset"]
NoPath == <<>>

MaxClock == 2
TicksPerSecond == 2
MaxImages == 2
MaxCalls == 3

OutputDirs == {"output", "out2"}
Callers == {"function", "client"}
PdfPath == "paper.pdf"

\* the converter's markdown: one text in which both images find a caption,
\* one in which none does
TextCaptioned == JoinLines(<<LRefX, LMention, LFig3>>)
TextPlain == <<"short">>
SampleTexts == {TextCaptioned, TextPlain}

\* the converter's image maps, each the key order of its dict: the first
\* images of a document, in one of two orders
ImageOrders ==
    {<<"img1.png", "img2.png", "a.png">>, <<"img2.png", "img1.png", "a.png">>}
ImageMaps ==
    {SubSeq(o, 1, n) : o \in ImageOrders, n \in 0..Smaller(MaxImages, 3)}

\* datetime.now().strftime("%Y%m%d_%H%M%S"): the clock cut to whole seconds
Strftime(t) == "20250101_00000" \o ToString(t \div TicksPerSecond)

\* os.path.join
PathJoin(dir, name) == dir \o <<name>>

\* the directories os.makedirs(p, exist_ok=True) makes sure exist
Prefixes(p) == {SubSeq(p, 1, k) : k \in 1..Len(p)}

IsUnder(p, dir) == Len(p) > Len(dir) /\ SubSeq(p, 1, Len(dir)) = dir

\* self.img_dir of __init__
ImgDirOf(out, sid) == <<"output", "images", sid>>

\* output_file of save_content when None is passed
DefaultOutputFile(out) == PathJoin(<<out>>, "lightweight_content.json")

VARIABLES
    text, fname, caption, cpc,      \* one call of _extract_image_caption
    now,                            \* the wall clock, in ticks
    dirs, files,                    \* the file system
    pc, caller, cleanup_temp,       \* the caller of each session
    session_id, img_dir, output_dir,
    markdown, images, image_list,   \* locals of extract_content
    content,                        \* what extract_content returned last
    output_file, result,            \* of extract_lightweight_content
    last,                           \* how the last method call ended
    calls,                          \* method calls made by a client
    fault, written, cap_raised, cleaned   \* history of the calls

cvars == <<text, fname, caption, cpc>>
fsvars == <<now, dirs, files>>
svars == <<pc, caller, cleanup_temp, session_id, img_dir, output_dir, markdown,
           images, image_list, content, output_file, result, last, calls,
           fault, written, cap_raised, cleaned>>
vars == <<cvars, fsvars, svars>>

CaptionIdle ==
    /\ text = <<>> /\ fname = "img1.png" /\ caption = "" /\ cpc = "off"

SessionsNew ==
    /\ now = 0
    /\ dirs = {} /\ files = <<>>
    /\ pc = [s \in Sessions |-> "new"]
    /\ caller = [s \in Sessions |-> "function"]
    /\ cleanup_temp = [s \in Sessions |-> FALSE]
    /\ session_id = [s \in Sessions |-> Unset]
    /\ img_dir = [s \in Sessions |-> <<>>]
    /\ output_dir = [s \in Sessions |-> Unset]
    /\ markdown = [s \in Sessions |-> <<>>]
    /\ images = [s \in Sessions |-> <<>>]
    /\ image_list = [s \in Sessions |-> <<>>]
    /\ content = [s \in Sessions |-> NotYet]
    /\ output_file = [s \in Sessions |-> NoPath]
    /\ result = [s \in Sessions |-> <<>>]
    /\ last = [s \in Sessions |-> "none"]
    /\ calls = [s \in Sessions |-> 0]
    /\ fault = [s \in Sessions |-> "none"]
    /\ written = [s \in Sessions |-> {}]
    /\ cap_raised = [s \in Sessions |-> {}]
    /\ cleaned = [s \in Sessions |-> 0]

(***************************************************************************)
(* One call of _extract_image_caption on a drawn text and file name.       *)
(***************************************************************************)
InitCaption ==
    /\ SessionsNew
    /\ cpc = "ready"
    /\ caption = ""
    /\ \/ \E ls \in ShortTexts, f \in Filenames : text = JoinLines(ls) /\ fname = f
       \/ \E ls \in LongTexts : text = JoinLines(ls) /\ fname = "img2.png"

ResolveCaption ==
    /\ cpc = "ready"
    /\ \E raised \in BOOLEAN :
          /\ caption' = extract_image_caption(text, fname, raised).value
          /\ cpc' = IF raised THEN "recovered" ELSE "done"
    /\ UNCHANGED <<text, fname, fsvars, svars>>

NextCaption == ResolveCaption

SpecCaption == InitCaption /\ [][NextCaption]_vars

(***************************************************************************)
(* The session's operations.                                               *)
(***************************************************************************)
\* where a method call returns to: extract_lightweight_content goes on to
\* its next statement, a client is free to make its next call
AfterExtract(s) == IF caller[s] = "function" THEN "extracted" ELSE "ready"

MayCall(s) == caller[s] = "function" \/ calls[s] < MaxCalls

\* the clock advances.  Only __init__ reads it (the time stamps that
\* extract_content puts in its record are left out of the model), so the
\* ticks after the last session of ss was constructed are not modelled
Tick(ss) ==
    /\ now < MaxClock
    /\ \E s \in ss : pc[s] = "new"
    /\ now' = now + 1
    /\ UNCHANGED <<cvars, dirs, files, svars>>

\* LightweightExtractor.__init__, called by extract_lightweight_content
\* (with its cleanup_temp) or by a client
Construct(s, outs, callers) ==
    /\ pc[s] = "new"
    /\ \E out \in outs, c \in callers, ct \in BOOLEAN :
          /\ c = "client" => ~ ct
          /\ output_dir' = [output_dir EXCEPT ![s] = out]
          /\ session_id' = [session_id EXCEPT ![s] = Strftime(now)]
          /\ img_dir' = [img_dir EXCEPT ![s] = ImgDirOf(out, Strftime(now))]
          /\ dirs' = dirs \cup Prefixes(<<out>>) \cup Prefixes(ImgDirOf(out, Strftime(now)))
          /\ caller' = [caller EXCEPT ![s] = c]
          /\ cleanup_temp' = [cleanup_temp EXCEPT ![s] = ct]
    /\ pc' = [pc EXCEPT ![s] = "ready"]
    /\ UNCHANGED <<cvars, now, files, markdown, images, image_list, content,
                   output_file, result, last, calls, fault, written, cap_raised,
                   cleaned>>

\* extract_content up to the loop: the converter raises, or returns the
\* markdown and the image map
Convert(s, maps, texts) ==
    /\ pc[s] = "ready" /\ MayCall(s)
    /\ calls' = [calls EXCEPT ![s] = @ + 1]
    /\ image_list' = [image_list EXCEPT ![s] = <<>>]
    /\ written' = [written EXCEPT ![s] = {}]
    /\ cap_raised' = [cap_raised EXCEPT ![s] = {}]
    /\ \/ /\ pc' = [pc EXCEPT ![s] = AfterExtract(s)]
          /\ content' = [content EXCEPT ![s] = None]
          /\ last' = [last EXCEPT ![s] = "extract_none"]
          /\ fault' = [fault EXCEPT ![s] = "convert"]
          /\ markdown' = [markdown EXCEPT ![s] = <<>>]
          /\ images' = [images EXCEPT ![s] = <<>>]
       \/ /\ \E m \in maps, t \in texts :
                /\ markdown' = [markdown EXCEPT ![s] = t]
                /\ images' = [images EXCEPT ![s] = m]
          /\ pc' = [pc EXCEPT ![s] = "loop"]
          /\ fault' = [fault EXCEPT ![s] = "none"]
          /\ UNCHANGED <<content, last>>
    /\ UNCHANGED <<cvars, fsvars, caller, cleanup_temp, session_id, img_dir,
                   output_dir, output_file, result, cleaned>>

\* an image_info dict numbered from the loop index i of enumerate, not i+1
ImageInfoZeroBased(i, filename, path, cap) ==
    [id |-> "fig" \o ToString(i - 1), filename |-> filename, path |-> path,
     caption |-> cap]

\* the image_info dict of one loop iteration; i counts from 1
ImageInfo(i, filename, path, cap) ==
    [id |-> "fig" \o ToString(i), filename |-> filename, path |-> path, caption |-> cap]

\* the content dict
ContentOf(s) ==
    [kind |-> "dict", full_text |-> markdown[s], images |-> image_list[s], pdf_path |-> PdfPath,
     session_id |-> session_id[s]]

\* an except branch that returns what the loop collected so far
ExtractFailsPartial(s, why) ==
    /\ pc' = [pc EXCEPT ![s] = AfterExtract(s)]
    /\ content' = [content EXCEPT ![s] = ContentOf(s)]
    /\ last' = [last EXCEPT ![s] = "extract_ok"]
    /\ fault' = [fault EXCEPT ![s] = why]

\* the except branch of extract_content: the exception is logged, None returned
ExtractFails(s, why) ==
    /\ pc' = [pc EXCEPT ![s] = AfterExtract(s)]
    /\ content' = [content EXCEPT ![s] = None]
    /\ last' = [last EXCEPT ![s] = "extract_none"]
    /\ fault' = [fault EXCEPT ![s] = why]

\* one iteration of the loop of extract_content: image.save, the caption,
\* the append.  image.save raises when the directory is gone or on an I/O
\* error
SaveImage(s) ==
    /\ pc[s] = "loop"
    /\ Len(image_list[s]) < Len(images[s])
    /\ LET i == Len(image_list[s]) + 1
           filename == images[s][i]
           image_filepath == PathJoin(img_dir[s], filename)
       IN  \/ /\ ExtractFails(s, "save")
              /\ UNCHANGED <<files, image_list, written, cap_raised>>
           \/ /\ img_dir[s] \in dirs
              /\ files' = [p \in DOMAIN files \cup {image_filepath} |->
                             IF p = image_filepath
                             THEN [by |-> s, data |-> filename] ELSE files[p]]
              /\ written' = [written EXCEPT ![s] = @ \cup {image_filepath}]
              /\ \E raised \in BOOLEAN :
                    LET cap == extract_image_caption(markdown[s], filename, raised)
                    IN  /\ cap_raised' = [cap_raised EXCEPT ![s] =
                                            IF raised THEN @ \cup {i} ELSE @]
                        /\ IF cap.raised
                           THEN /\ ExtractFails(s, "caption")
                                /\ UNCHANGED image_list
                           ELSE /\ image_list' = [image_list EXCEPT ![s] =
                                      Append(@, ImageInfo(i, filename, image_filepath,
                                                          cap.value))]
                                /\ UNCHANGED <<pc, content, last, fault>>
    /\ UNCHANGED <<cvars, now, dirs, caller, cleanup_temp, session_id, img_dir,
                   output_dir, markdown, images, output_file, result, calls, cleaned>>

\* extract_content after the loop: return content
ExtractReturn(s) ==
    /\ pc[s] = "loop"
    /\ Len(image_list[s]) = Len(images[s])
    /\ content' = [content EXCEPT ![s] = ContentOf(s)]
    /\ last' = [last EXCEPT ![s] = "extract_ok"]
    /\ pc' = [pc EXCEPT ![s] = AfterExtract(s)]
    /\ UNCHANGED <<cvars, fsvars, caller, cleanup_temp, session_id, img_dir,
                   output_dir, markdown, images, image_list, output_file, result,
                   calls, fault, written, cap_raised, cleaned>>

\* save_content(content) with the default output file: open() raises, or the
\* record is written
SaveContent(s) ==
    /\ content[s].kind = "dict"
    /\ \/ caller[s] = "function" /\ pc[s] = "extracted"
       \/ caller[s] = "client" /\ pc[s] = "ready" /\ calls[s] < MaxCalls
    /\ calls' = [calls EXCEPT ![s] = @ + 1]
    /\ LET file == DefaultOutputFile(output_dir[s])
       IN  \/ /\ last' = [last EXCEPT ![s] = "save_raised"]
              /\ pc' = [pc EXCEPT ![s] = IF caller[s] = "function" THEN "raised" ELSE "ready"]
              /\ UNCHANGED <<files, output_file>>
           \/ /\ <<output_dir[s]>> \in dirs
              /\ files' = [p \in DOMAIN files \cup {file} |->
                             IF p = file THEN content[s] ELSE files[p]]
              /\ output_file' = [output_file EXCEPT ![s] = file]
              /\ last' = [last EXCEPT ![s] = "save_ok"]
              /\ pc' = [pc EXCEPT ![s] = IF caller[s] = "function" THEN "saved" ELSE "ready"]
    /\ UNCHANGED <<cvars, now, dirs, caller, cleanup_temp, session_id, img_dir,
                   output_dir, markdown, images, image_list, content, result,
                   fault, written, cap_raised, cleaned>>

\* os.path.exists(p) for a directory path
os_path_exists(p) == p \in dirs

\* shutil.rmtree(dir): everything under dir and dir itself are removed, or
\* an error is raised after some of the files were removed
Rmtree(dir, ok, gone) ==
    IF ok
    THEN /\ dirs' = {d \in dirs : d # dir /\ ~ IsUnder(d, dir)}
         /\ files' = [p \in {q \in DOMAIN files : ~ IsUnder(q, dir)} |-> files[p]]
    ELSE /\ dirs' = dirs
         /\ files' = [p \in DOMAIN files \ gone |-> files[p]]

\* a cleanup_temp_files that lets the exception of rmtree through
CleanupOutcomeRaise(ok) == IF ok THEN "cleanup_ok" ELSE "cleanup_raised"

\* how cleanup_temp_files ends: when rmtree raised, the exception is logged
CleanupOutcome(ok) == IF ok THEN "cleanup_ok" ELSE "cleanup_warned"

\* cleanup_temp_files
CleanupTempFiles(s) ==
    /\ IF os_path_exists(img_dir[s])
       THEN \E ok \in BOOLEAN, gone \in SUBSET {p \in DOMAIN files : IsUnder(p, img_dir[s])} :
               /\ ok => gone = {}
               /\ Rmtree(img_dir[s], ok, gone)
               /\ last' = [last EXCEPT ![s] = CleanupOutcome(ok)]
       ELSE /\ UNCHANGED <<dirs, files>>
            /\ last' = [last EXCEPT ![s] = "cleanup_ok"]
    /\ cleaned' = [cleaned EXCEPT ![s] = @ + 1]

\* cleanup_temp_files called by a client
Cleanup(s) ==
    /\ caller[s] = "client" /\ pc[s] = "ready" /\ calls[s] < MaxCalls
    /\ calls' = [calls EXCEPT ![s] = @ + 1]
    /\ CleanupTempFiles(s)
    /\ UNCHANGED <<cvars, now, pc, caller, cleanup_temp, session_id, img_dir,
                   output_dir, markdown, images, image_list, content, output_file,
                   result, fault, written, cap_raised>>

\* extract_lightweight_content after save_content: the cleanup if asked
\* for, and return content, output_file
FunctionReturn(s) ==
    /\ caller[s] = "function" /\ pc[s] = "saved"
    /\ IF cleanup_temp[s]
       THEN CleanupTempFiles(s)
       ELSE UNCHANGED <<dirs, files, last, cleaned>>
    /\ result' = [result EXCEPT ![s] = <<content[s], output_file[s]>>]
    /\ pc' = [pc EXCEPT ![s] = "returned"]
    /\ UNCHANGED <<cvars, now, caller, cleanup_temp, session_id, img_dir,
                   output_dir, markdown, images, image_list, content, output_file,
                   calls, fault, written, cap_raised>>

\* an extract_lightweight_content that cleans up on the failure path too
FunctionReturnNoneCleanup(s) ==
    /\ caller[s] = "function" /\ pc[s] = "extracted"
    /\ content[s] = None
    /\ IF cleanup_temp[s]
       THEN CleanupTempFiles(s)
       ELSE UNCHANGED <<dirs, files, last, cleaned>>
    /\ result' = [result EXCEPT ![s] = <<None, NoPath>>]
    /\ pc' = [pc EXCEPT ![s] = "returned"]
    /\ UNCHANGED <<cvars, now, caller, cleanup_temp, session_id, img_dir,
                   output_dir, markdown, images, image_list, content, output_file,
                   calls, fault, written, cap_raised>>

\* extract_lightweight_content when extract_content returned None
FunctionReturnNone(s) ==
    /\ caller[s] = "function" /\ pc[s] = "extracted"
    /\ content[s] = None
    /\ result' = [result EXCEPT ![s] = <<None, NoPath>>]
    /\ pc' = [pc EXCEPT ![s] = "returned"]
    /\ UNCHANGED <<cvars, fsvars, caller, cleanup_temp, session_id, img_dir,
                   output_dir, markdown, images, image_list, content, output_file,
                   last, calls, fault, written, cap_raised, cleaned>>

\* one session, driven by extract_lightweight_content or by a client that
\* calls the methods in any order
Init == CaptionIdle /\ SessionsNew

Next ==
    \/ Tick({"s1"})
    \/ Construct("s1", OutputDirs, Callers)
    \/ Convert("s1", ImageMaps, SampleTexts)
    \/ SaveImage("s1")
    \/ ExtractReturn("s1")
    \/ SaveContent("s1")
    \/ Cleanup("s1")
    \/ FunctionReturn("s1")
    \/ FunctionReturnNone("s1")

Spec == Init /\ [][Next]_vars

\* two calls of extract_lightweight_content running at the same time
PairMaps == {<<"img1.png">>}

NextPair ==
    \/ Tick(Sessions)
    \/ \E s \in Sessions :
          \/ Construct(s, OutputDirs, {"function"})
          \/ Convert(s, PairMaps, {TextPlain})
          \/ SaveImage(s)
          \/ ExtractReturn(s)
          \/ SaveContent(s)
          \/ FunctionReturn(s)
          \/ FunctionReturnNone(s)

SpecPair == Init /\ [][NextPair]_vars
(***************************************************************************)
(* Properties of the caption heuristic, checked under SpecCaption.         *)
(***************************************************************************)
\* sub occurs in t as a run of consecutive symbols
Occurs(t, sub) ==
    \E k \in 1..(Len(t) - Len(sub) + 1) : SubSeq(t, k, k + Len(sub) - 1) = sub

\* the text holds no "![", so no image reference
NoReference(t) == \A k \in 1..(Len(t) - 1) : ~ (t[k] = "!" /\ t[k + 1] = "[")

\* the lines that mention file name f
Mentions(lines, f) == {i \in 1..Len(lines) : LineHas(lines[i], f)}

\* C4: every text that holds the reference ![Caption X](d/img1.png) gives
\* img1.png the caption "Caption X", whatever surrounds the reference.
\* Stated for the texts in which no other reference names img1.png, where
\* rule 1 leaves one result only.
C4_DirectReferenceWins ==
    (/\ cpc = "done"
     /\ fname = "img1.png"
     /\ Occurs(text, LRefX)
     /\ Cardinality({k \in 1..Len(text) : text[k] = "img1.png"}) = 1)
    => caption = "Caption X"

\* C5, as stated: in a text without image references, a line that mentions
\* img2.png and is followed within 5 lines by "Figure 3: Result overview"
\* gives img2.png the caption "Result overview", whatever the other lines are.
C5_AnyMentionAnySurrounding ==
    LET lines == Split(text)
    IN  (/\ cpc = "done"
         /\ fname = "img2.png"
         /\ NoReference(text)
         /\ \E i \in Mentions(lines, "img2.png") :
               \E j \in (i + 1)..Smaller(Len(lines), i + 5) : lines[j] = LFig3)
        => caption = "Result overview"

\* the case of C5 as amended: the first mention of img2.png is followed
\* within 5 lines by the label line, at offset d, with no figure label that
\* has trailing text in between
C5_Case(d) ==
    LET lines == Split(text)
        ms == Mentions(lines, "img2.png")
    IN  /\ cpc = "done"
        /\ fname = "img2.png"
        /\ NoReference(text)
        /\ ms # {}
        /\ MinOf(ms) + d <= Len(lines)
        /\ lines[MinOf(ms) + d] = LFig3
        /\ \A k \in (MinOf(ms) + 1)..(MinOf(ms) + d - 1) : FigureCaption(lines[k]) = ""

\* C5, amended: in a text without image references, if the first line that
\* mentions img2.png is followed within 5 lines by the line
\* "Figure 3: Result overview" and no line between the two is a figure label
\* with trailing text, img2.png gets the caption "Result overview".
C5_FirstLabelBelowFirstMention ==
    (\E d \in 1..5 : C5_Case(d)) => caption = "Result overview"

\* the label line lies 5 lines below the first mention
C5_Witness == C5_Case(5) /\ caption = "Result overview"

\* the result the claim C9 describes for the mention at line i: the first
\* figure label with trailing text in lines +1..+5, else in lines -3..-1,
\* else the first prose line in lines +1..+3, else ""
C9_Below(lines, i) ==
    {j \in (i + 1)..(i + 5) : j <= Len(lines) /\ FigureCaption(lines[j]) # ""}
C9_Above(lines, i) ==
    {j \in (i - 3)..(i - 1) : j >= 1 /\ FigureCaption(lines[j]) # ""}
C9_Prose(lines, i) ==
    {j \in (i + 1)..(i + 3) : j <= Len(lines) /\ ProseOk(lines[j])}
C9_AtMention(lines, i) ==
    IF C9_Below(lines, i) # {} THEN FigureCaption(lines[MinOf(C9_Below(lines, i))])
    ELSE IF C9_Above(lines, i) # {} THEN FigureCaption(lines[MinOf(C9_Above(lines, i))])
    ELSE IF C9_Prose(lines, i) # {} THEN Join(Strip(lines[MinOf(C9_Prose(lines, i))]))
    ELSE ""

\* C9, as stated: when the direct reference yields nothing, the result is
\* what the first line that mentions the file name yields, "" if it yields
\* nothing; later mentions never contribute.
C9_FirstMentionOnly ==
    LET lines == Split(text)
        ms == Mentions(lines, fname)
    IN  (cpc = "done" /\ DirectReference(text, fname) = "")
        => caption = IF ms = {} THEN "" ELSE C9_AtMention(lines, MinOf(ms))

\* C9, amended: when the direct reference yields nothing, the lines that
\* mention the file name are tried in order; the result is what the first
\* of them that yields anything yields (figure label below, else figure
\* label above, else prose line below), and "" if none yields anything.
C9_FirstYieldingMention ==
    LET lines == Split(text)
        ys == {i \in Mentions(lines, fname) : C9_AtMention(lines, i) # ""}
    IN  (cpc = "done" /\ DirectReference(text, fname) = "")
        => caption = IF ys = {} THEN "" ELSE C9_AtMention(lines, MinOf(ys))

\* the first mention yields nothing and a later one gives the caption
C9_Witness ==
    LET lines == Split(text)
        ms == Mentions(lines, fname)
    IN  /\ cpc = "done"
        /\ DirectReference(text, fname) = ""
        /\ ms # {}
        /\ C9_AtMention(lines, MinOf(ms)) = ""
        /\ caption # ""

(***************************************************************************)
(* Properties of the session, checked under Spec (one session) and, for    *)
(* C2, under SpecPair (two sessions).                                      *)
(***************************************************************************)
\* extract_content of session s has returned and s made no call since
JustReturned(s) ==
    /\ pc[s] \in {"ready", "extracted"}
    /\ last[s] \in {"extract_ok", "extract_none"}

\* C1: extract_content returns no partial record: when the converter and
\* every image save succeeded it returns a record that lists all N images
\* of the image map, and when the converter or a save failed it returns
\* None, also after some images were saved.
C1_NoPartialRecord ==
    \A s \in Sessions :
        JustReturned(s) =>
            IF fault[s] = "none"
            THEN /\ content[s].kind = "dict"
                 /\ Len(content[s].images) = Len(images[s])
                 /\ \A k \in 1..Len(images[s]) :
                       content[s].images[k].filename = images[s][k]
            ELSE content[s].kind = "None"

\* the save of the second or a later image failed, and None was returned
C1_Witness ==
    /\ JustReturned("s1")
    /\ fault["s1"] = "save"
    /\ Len(image_list["s1"]) >= 1
    /\ content["s1"].kind = "None"

\* C2: two sessions that are alive at the same time never have the same
\* session identifier, never share an image directory, and the image files
\* a session wrote stay its own while it is alive.
Alive(s) == pc[s] \notin {"new", "returned", "raised"}

C2_SessionsIsolated ==
    \A s, t \in Sessions :
        (s # t /\ Alive(s) /\ Alive(t)) =>
            /\ session_id[s] # session_id[t]
            /\ img_dir[s] # img_dir[t]
            /\ \A p \in written[s] : p \in DOMAIN files /\ files[p].by = s

\* C3: when extract_content succeeds on N images, the record lists N
\* images, the k-th with id "fig"+k and the k-th file name of the image map,
\* and each path is a file of the session's image directory that this call
\* wrote and that is on disk when the call returns.
C3_RecordMatchesImageMap ==
    \A s \in Sessions :
        (JustReturned(s) /\ last[s] = "extract_ok") =>
            /\ Len(content[s].images) = Len(images[s])
            /\ \A k \in 1..Len(images[s]) :
                  LET rec == content[s].images[k]
                  IN  /\ rec.id = "fig" \o ToString(k)
                      /\ rec.filename = images[s][k]
                      /\ rec.path = img_dir[s] \o <<images[s][k]>>
                      /\ rec.path \in written[s]
                      /\ rec.path \in DOMAIN files

\* a record of two images, in the converter's order img2.png, img1.png
C3_Witness ==
    /\ JustReturned("s1") /\ last["s1"] = "extract_ok"
    /\ images["s1"] = <<"img2.png", "img1.png">>
    /\ Len(content["s1"].images) = 2

\* a step of cleanup_temp_files of session s
CleanupStep(s) == cleaned'[s] = cleaned[s] + 1

\* the image directory of s and everything in it are off the disk
DirGone(s, ds, fs) ==
    /\ img_dir[s] \notin ds
    /\ \A p \in DOMAIN fs : ~ IsUnder(p, img_dir[s])

\* C6, as stated: cleanup after a successful extraction removes the image
\* directory entirely; a second or later cleanup call changes nothing on
\* disk; no cleanup call raises.
C6_SecondCleanupNoOp ==
    [][\A s \in Sessions :
          CleanupStep(s) =>
             /\ (content[s].kind = "dict" /\ fault[s] = "none")
                   => DirGone(s, dirs', files')
             /\ cleaned[s] >= 1 => (dirs' = dirs /\ files' = files)
             /\ last'[s] # "cleanup_raised"]_vars

\* C6, amended: a cleanup call in which rmtree raises no error leaves the
\* image directory removed entirely; a cleanup call that finds the
\* directory absent changes nothing on disk; no cleanup call raises: an
\* error of rmtree is logged and swallowed.
C6_CleanupRemovesOrWarns ==
    [][\A s \in Sessions :
          CleanupStep(s) =>
             /\ last'[s] \in {"cleanup_ok", "cleanup_warned"}
             /\ last'[s] = "cleanup_ok" => DirGone(s, dirs', files')
             /\ img_dir[s] \notin dirs => (dirs' = dirs /\ files' = files)]_vars

\* after a successful extraction of two images the client called cleanup
\* twice; the directory is gone
C6_Witness ==
    /\ cleaned["s1"] = 2
    /\ content["s1"].kind = "dict"
    /\ Len(content["s1"].images) = 2
    /\ last["s1"] = "cleanup_ok"
    /\ DirGone("s1", dirs, files)

\* none of the three rules gives file name f a caption in text t
NoRuleMatches(t, f) ==
    /\ DirectReference(t, f) = ""
    /\ \A i \in Mentions(Split(t), f) : C9_AtMention(Split(t), i) = ""

\* C7: an error inside the caption heuristic never fails the extraction:
\* the record of that image is produced with caption ""; and an image that
\* none of the three rules matches gets caption "".
C7_CaptionFailureIsLocal ==
    \A s \in Sessions :
        /\ fault[s] # "caption"
        /\ \A k \in cap_raised[s] :
              /\ k <= Len(image_list[s])
              /\ image_list[s][k].filename = images[s][k]
              /\ image_list[s][k].caption = ""
        /\ \A k \in 1..Len(image_list[s]) :
              NoRuleMatches(markdown[s], images[s][k]) => image_list[s][k].caption = ""
        /\ (JustReturned(s) /\ fault[s] = "none") => content[s].images = image_list[s]

\* the heuristic raised on the first image of a text that holds captions,
\* and the extraction returned the record of both images
C7_Witness ==
    /\ JustReturned("s1") /\ last["s1"] = "extract_ok"
    /\ markdown["s1"] = TextCaptioned
    /\ 1 \in cap_raised["s1"]
    /\ Len(content["s1"].images) = 2
    /\ content["s1"].images[1].caption = ""

\* C8: the image directory of a session created with output directory D is
\* D/images/<session_id>, and every image is written to and recorded with
\* the path D/images/<session_id>/<filename>.
C8_ImageDirUnderOutputDir ==
    \A s \in Sessions :
        pc[s] # "new" =>
            /\ img_dir[s] = <<output_dir[s], "images", session_id[s]>>
            /\ \A k \in 1..Len(image_list[s]) :
                  /\ image_list[s][k].path =
                        <<output_dir[s], "images", session_id[s], images[s][k]>>
                  /\ image_list[s][k].path \in written[s]

\* C10: extract_lightweight_content cleans up only after extract_content
\* returned a record and save_content returned, and only when cleanup_temp
\* is true; when extract_content returned None or save_content raised, no
\* cleanup was made, the image directory and the files written are on disk,
\* and after a None the function returns (None, None).
C10_CleanupOnlyAfterSave ==
    \A s \in Sessions :
        (caller[s] = "function" /\ pc[s] # "new") =>
            /\ cleaned[s] > 0 =>
                  /\ cleanup_temp[s]
                  /\ content[s].kind = "dict"
                  /\ output_file[s] # NoPath
                  /\ pc[s] = "returned"
            /\ (content[s].kind = "None" \/ pc[s] = "raised") =>
                  /\ cleaned[s] = 0
                  /\ img_dir[s] \in dirs
                  /\ written[s] \subseteq DOMAIN files
            /\ (pc[s] = "returned" /\ content[s].kind = "None") =>
                  result[s] = <<None, NoPath>>

\* cleanup_temp is true, an image was written, then a save failed: the
\* function has returned and the written file is still there
C10_Witness ==
    /\ caller["s1"] = "function" /\ cleanup_temp["s1"]
    /\ pc["s1"] = "returned"
    /\ content["s1"].kind = "None"
    /\ written["s1"] # {}
    /\ written["s1"] \subseteq DOMAIN files
====
